---- MODULE Spec2Model ----
(***************************************************************************)
(* Download queue, session manager and connection allocator of the         *)
(* restricted-content downloader bot.                                       *)
(*                                                                         *)
(*   queue_manager.py            DownloadQueueManager                       *)
(*   helpers/session_manager.py  SessionManager                             *)
(*   helpers/transfer.py         ConnectionAllocator                        *)
(*                                                                         *)
(* Every coroutine runs on one asyncio event loop.  The managers' methods   *)
(* take the manager's asyncio.Lock for their whole body, so one call is one *)
(* action.  Time is counted in ticks of 30 minutes: the 30-minute download  *)
(* timeout, the 30-minute idle timeout and the 30-minute sweep age are one  *)
(* tick each.  datetime.now().timestamp() is a clock reading: the tick and, *)
(* within the tick, a value that never goes back and that two reads may     *)
(* find unchanged.                                                          *)
(***************************************************************************)
EXTENDS Integers, Sequences, FiniteSets, TLC

\* ------------------------------------------------------------------ bounds
NumUsers == 4
MaxClock == 2
MaxObjects == 3
NumSessionUsers == 3
ClockResolution == 2

Users == 1..NumUsers

\* db.get_user_type(event.sender_id) in ['premium', 'admin']: the lower half
\* of the users is premium
is_premium(user_id) == 2 * user_id <= NumUsers

\* the users that ask the session manager for a session
SessionUsers == 1..NumSessionUsers

\* ----------------------------------------------------- program constants
PREMIUM == 1
FREE == 2
\* wait_for(download_coro, timeout=1800), sweep_stale_items(max_age_minutes=30)
\* and idle_timeout_minutes = 30, in ticks
DownloadTimeout == 1
SweepMaxAge == 1
idle_timeout_seconds == 1
\* the timer of a task that task.cancel() has cancelled
Cancelled == -1

VARIABLES
    \* DownloadQueueManager
    max_concurrent,
    max_queue,
    active_downloads,       \* set of user ids
    waiting_queue,          \* sequence of QueueItem
    user_queue_positions,   \* user id -> QueueItem, NoItem when absent
    active_tasks,           \* user id -> task (its coroutine's id), 0 when absent
    processing,             \* _processing
    \* SessionManager
    max_sessions,
    active_sessions,        \* the OrderedDict's keys, least recently used first
    last_activity,          \* user id -> time of the last use, NoTime when absent
    \* ConnectionAllocator
    total_connections,
    min_per_transfer,
    max_per_transfer,
    active_transfers,       \* _active_transfers: transfer id -> connections, 0 when absent
    transfer_counter,       \* _transfer_counter
    connections_in_use,     \* _connections_in_use
    waiting_count,          \* _waiting_count
    callers,                \* the coroutines that call allocate and release
    downloads,              \* caller -> its download_media_fast call
    files,                  \* the files under downloads/
    \* RichAdsManager
    publisher_id,           \* RICHADS_PUBLISHER_ID, "" when not set
    last_ad_time,           \* user id -> time of the last ad, 0 when absent
    \* the event loop and the environment
    tasks,                  \* the tasks created and not yet finished
    now,                    \* the wall clock, in ticks
    time,                   \* time(), in seconds
    ret                     \* what the last call returned

queue_vars == <<max_concurrent, max_queue, active_downloads, waiting_queue,
                user_queue_positions, active_tasks, processing, tasks>>

session_vars == <<max_sessions, active_sessions, last_activity>>

alloc_vars == <<total_connections, min_per_transfer, max_per_transfer, active_transfers,
                transfer_counter, connections_in_use, waiting_count, callers,
                downloads, files>>

ads_vars == <<publisher_id, last_ad_time, time>>

vars == <<max_concurrent, max_queue, active_downloads, waiting_queue,
          user_queue_positions, active_tasks, processing, max_sessions,
          active_sessions, last_activity, total_connections,
          min_per_transfer, max_per_transfer, active_transfers, transfer_counter,
          connections_in_use, waiting_count, callers, downloads, files,
          publisher_id, last_ad_time, time, tasks, now, ret>>

\* ------------------------------------------------------------- QueueItem
\* timestamp: a clock reading, <<tick, value within the tick>>
NoItem == [priority |-> 0, timestamp |-> <<0, 0>>, user_id |-> 0, download_coro |-> 0]

QueueItem(priority, timestamp, user_id, download_coro) ==
    [priority |-> priority, timestamp |-> timestamp, user_id |-> user_id,
     download_coro |-> download_coro]

\* dataclass(order=True): only priority and timestamp take part in == and <
ItemEq(a, b) == a.priority = b.priority /\ a.timestamp = b.timestamp

\* float <
TimeLt(s, t) == s[1] < t[1] \/ (s[1] = t[1] /\ s[2] < t[2])

ItemLt(a, b) ==
    \/ a.priority < b.priority
    \/ a.priority = b.priority /\ TimeLt(a.timestamp, b.timestamp)

\* x put before the first element of the sorted s that is greater than x
RECURSIVE InsertSorted(_, _)
InsertSorted(s, x) ==
    IF s = <<>> THEN <<x>>
    ELSE IF ItemLt(x, Head(s)) THEN <<x>> \o s
    ELSE <<Head(s)>> \o InsertSorted(Tail(s), x)

\* list.sort() left out: the list stays in append order
ListSortLeftOut(s) == s

\* list.sort(): a stable sort by (priority, timestamp)
RECURSIVE ListSort(_)
ListSort(s) ==
    IF s = <<>> THEN <<>>
    ELSE InsertSorted(ListSort(SubSeq(s, 1, Len(s) - 1)), s[Len(s)])

\* x in list: some element equal to x
ListContains(s, x) == \E i \in 1..Len(s) : ItemEq(s[i], x)

\* list.remove(x): the first element equal to x is removed
RECURSIVE ListRemove(_, _)
ListRemove(s, x) ==
    IF s = <<>> THEN <<>>
    ELSE IF ItemEq(Head(s), x) THEN Tail(s)
    ELSE <<Head(s)>> \o ListRemove(Tail(s), x)

\* dict.pop(key, None)
DictPop(d, k) == [d EXCEPT ![k] = NoItem]

\* active_tasks.pop(user_id, None) left out
TaskPopLeftOut(d, k) == d

TaskPop(d, k) == [d EXCEPT ![k] = 0]

\* asyncio.create_task(self._execute_download(user_id, download_coro, message))
\* asyncio.wait_for(download_coro, timeout=1800) arms the task's timer
NewTask(user_id, download_coro) ==
    [coro |-> download_coro, user_id |-> user_id, timer |-> now + DownloadTimeout]

TaskDone(t) == t # 0 /\ ~(\E k \in tasks : k.coro = t)

\* task.cancel() on every task of ts that is not done: CancelledError is
\* thrown into the coroutine and wait_for drops its timer
CancelTasks(all, ts) ==
    {IF k.coro \in ts THEN [k EXCEPT !.timer = Cancelled] ELSE k : k \in all}

\* What a call returned (ok, msg) and what it did to the world outside the
\* managers: disconnected, the users on whose client it called disconnect();
\* started, the queue items whose download the processor started ("Started
\* queued download for user ..." in the log), in that order.
Ret(ok, msg) == [ok |-> ok, msg |-> msg, disconnected |-> {}, started |-> <<>>]

None == Ret(TRUE, "None")

\* ----------------------------------------------------------------- Init
QueueInit(args) ==
    /\ max_concurrent = args.max_concurrent
    /\ max_queue = args.max_queue
    /\ active_downloads = {}
    /\ waiting_queue = <<>>
    /\ user_queue_positions = [u \in Users |-> NoItem]
    /\ active_tasks = [u \in Users |-> 0]
    /\ processing = FALSE
    /\ tasks = {}


\* ---------------------------------------------------------- add_to_queue
\* line 64: the user has a queue position or an active download
AddRejects(user_id) ==
    user_queue_positions[user_id] # NoItem \/ user_id \in active_downloads

\* line 81 with > for >=
SlotsFullOffByOne == Cardinality(active_downloads) > max_concurrent

\* line 81
SlotsFull == Cardinality(active_downloads) >= max_concurrent

\* line 82 with > for >=
QueueFullOffByOne == Len(waiting_queue) > max_queue

\* line 82
QueueFull == Len(waiting_queue) >= max_queue

\* The coroutine objects that something still refers to, and the handle of
\* the next one: an object is told from the others alive with it, so a
\* handle nothing refers to any more is used again (the lowest first).
LiveItems ==
    ({waiting_queue[i] : i \in 1..Len(waiting_queue)}
        \cup {user_queue_positions[u] : u \in Users}) \ {NoItem}

LiveCoros ==
    ({i.download_coro : i \in LiveItems}
        \cup {t.coro : t \in tasks}
        \cup {active_tasks[u] : u \in Users}) \ {0}

FreeCoros == (1..MaxObjects) \ LiveCoros

NextCoro == IF FreeCoros = {} THEN 0 ELSE CHOOSE n \in FreeCoros : \A m \in FreeCoros : n <= m

\* datetime.now().timestamp(): the readings the clock can give now, none
\* below a reading it gave before
ClockReadings ==
    LET earlier == {i.timestamp[2] : i \in {j \in LiveItems : j.timestamp[1] = now}}
        latest == IF earlier = {} THEN 0
                  ELSE CHOOSE m \in earlier : \A k \in earlier : k <= m
    IN  {<<now, m>> : m \in {latest, latest + 1} \cap (0..(ClockResolution - 1))}

AddToQueue(user_id, download_coro, premium) ==
  /\ UNCHANGED <<max_concurrent, max_queue, session_vars, alloc_vars, ads_vars>>
  /\
    IF AddRejects(user_id)
    THEN /\ ret' = Ret(FALSE,
                       IF user_id \in active_downloads THEN "in_progress" ELSE "in_queue")
         /\ UNCHANGED <<queue_vars, now>>
    ELSE IF SlotsFull
    THEN IF QueueFull
         THEN /\ ret' = Ret(FALSE, "queue_full")
              /\ UNCHANGED <<queue_vars, now>>
         ELSE \E timestamp \in ClockReadings :
              LET queue_item == QueueItem(IF premium THEN PREMIUM ELSE FREE,
                                          timestamp, user_id, download_coro)
              IN  /\ download_coro \in FreeCoros
                  /\ waiting_queue' = ListSort(Append(waiting_queue, queue_item))
                  /\ user_queue_positions' =
                         [user_queue_positions EXCEPT ![user_id] = queue_item]
                  /\ ret' = Ret(TRUE, "queued")
                  /\ UNCHANGED <<active_downloads, active_tasks, processing, tasks, now>>
    ELSE /\ download_coro \in FreeCoros
         /\ active_downloads' = active_downloads \cup {user_id}
         /\ tasks' = tasks \cup {NewTask(user_id, download_coro)}
         /\ active_tasks' = [active_tasks EXCEPT ![user_id] = download_coro]
         /\ ret' = Ret(TRUE, "started")
         /\ UNCHANGED <<waiting_queue, user_queue_positions, processing, now>>

\* ----------------------------------------- _execute_download, finally block
\* The download coroutine of task t returned, raised, timed out or was
\* cancelled; every path ends in the finally block.
ExecuteDownloadFinally(t) ==
    /\ UNCHANGED <<max_concurrent, max_queue, session_vars, alloc_vars, ads_vars>>
    /\ t \in tasks
    /\ active_downloads' = active_downloads \ {t.user_id}
    /\ active_tasks' = TaskPop(active_tasks, t.user_id)
    /\ tasks' = tasks \ {t}
    /\ ret' = None
    /\ UNCHANGED <<waiting_queue, user_queue_positions, processing, now>>

\* -------------------------------------------------------- _process_queue
\* One pass of the inner while loop, the lock held.  st carries the fields
\* the loop reads and writes.
RECURSIVE ProcessLoop(_)
ProcessLoop(st) ==
    IF Cardinality(st.ad) < max_concurrent /\ st.wq # <<>>
    THEN LET queue_item == Head(st.wq)
             user_id == queue_item.user_id
             popped == [st EXCEPT !.wq = Tail(st.wq), !.uqp = DictPop(st.uqp, user_id)]
         IN  IF user_id \in st.ad
             THEN ProcessLoop(popped)
             ELSE ProcessLoop([popped EXCEPT
                      !.started = Append(st.started, queue_item),
                      !.ad = st.ad \cup {user_id},
                      !.tk = st.tk \cup {NewTask(user_id, queue_item.download_coro)},
                      !.at = [st.at EXCEPT ![user_id] = queue_item.download_coro]])
    ELSE st

StartProcessor ==
    /\ UNCHANGED <<max_concurrent, max_queue, session_vars, alloc_vars, ads_vars>>
    /\ ~processing
    /\ processing' = TRUE
    /\ ret' = None
    /\ UNCHANGED <<active_downloads, waiting_queue, user_queue_positions, active_tasks,
                   tasks, now>>

ProcessQueue ==
    /\ UNCHANGED <<max_concurrent, max_queue, session_vars, alloc_vars, ads_vars>>
    /\ processing
    /\ LET st == ProcessLoop([ad |-> active_downloads, wq |-> waiting_queue,
                              uqp |-> user_queue_positions, at |-> active_tasks,
                              tk |-> tasks, started |-> <<>>])
       IN  /\ ret' = [None EXCEPT !.started = st.started]
           /\ active_downloads' = st.ad
           /\ waiting_queue' = st.wq
           /\ user_queue_positions' = st.uqp
           /\ active_tasks' = st.at
           /\ tasks' = st.tk
    /\ UNCHANGED <<processing, now>>

\* -------------------------------------------------- cancel_user_download
CancelUserDownload(user_id) ==
  /\ UNCHANGED <<max_concurrent, max_queue, session_vars, alloc_vars, ads_vars>>
  /\
    IF user_id \in active_downloads
    THEN /\ tasks' = CancelTasks(tasks, {active_tasks[user_id]})
         /\ active_downloads' = active_downloads \ {user_id}
         /\ active_tasks' = TaskPop(active_tasks, user_id)
         /\ ret' = Ret(TRUE, "active_cancelled")
         /\ UNCHANGED <<waiting_queue, user_queue_positions, processing, now>>
    ELSE LET queue_item == user_queue_positions[user_id]
         IN  IF queue_item # NoItem /\ ListContains(waiting_queue, queue_item)
             THEN /\ waiting_queue' = ListRemove(waiting_queue, queue_item)
                  /\ user_queue_positions' = DictPop(user_queue_positions, user_id)
                  /\ ret' = Ret(TRUE, "queue_removed")
                  /\ UNCHANGED <<active_downloads, active_tasks, processing, tasks, now>>
             ELSE /\ ret' = Ret(FALSE, "not_found")
                  /\ UNCHANGED <<queue_vars, now>>

\* -------------------------------------------------- cancel_all_downloads
CancelAllDownloads ==
    /\ UNCHANGED <<max_concurrent, max_queue, session_vars, alloc_vars, ads_vars>>
    /\ tasks' = CancelTasks(tasks, {active_tasks[u] : u \in Users})
    /\ active_downloads' = {}
    /\ active_tasks' = [u \in Users |-> 0]
    /\ waiting_queue' = <<>>
    /\ user_queue_positions' = [u \in Users |-> NoItem]
    /\ ret' = None
    /\ UNCHANGED <<processing, now>>

\* ----------------------------------------------------- sweep_stale_items
StaleItems(wq, max_age) == SelectSeq(wq, LAMBDA item : item.timestamp[1] < now - max_age)

RECURSIVE SweepLoop(_, _)
SweepLoop(st, stale_items) ==
    IF stale_items = <<>> THEN st
    ELSE LET stale_item == Head(stale_items)
         IN  SweepLoop([st EXCEPT !.wq = ListRemove(st.wq, stale_item),
                                  !.uqp = DictPop(st.uqp, stale_item.user_id)],
                       Tail(stale_items))

OrphanedUsers == {u \in Users : TaskDone(active_tasks[u])}

SweepStaleItems(max_age) ==
    /\ UNCHANGED <<max_concurrent, max_queue, session_vars, alloc_vars, ads_vars>>
    /\ LET st == SweepLoop([wq |-> waiting_queue, uqp |-> user_queue_positions],
                           StaleItems(waiting_queue, max_age))
       IN  /\ waiting_queue' = st.wq
           /\ user_queue_positions' = st.uqp
    /\ active_tasks' = [u \in Users |-> IF u \in OrphanedUsers THEN 0 ELSE active_tasks[u]]
    /\ active_downloads' = active_downloads \ OrphanedUsers
    /\ ret' = None
    /\ UNCHANGED <<processing, tasks, now>>

\* ------------------------------------------------------------- the clock
\* asyncio.wait_for(download_coro, timeout=1800): a task that was not
\* cancelled reaches its finally block before the clock passes its timer.
Tick ==
    /\ UNCHANGED <<max_concurrent, max_queue, session_vars, alloc_vars, ads_vars>>
    /\ now < MaxClock
    /\ \A t \in tasks : t.timer # Cancelled => now + 1 <= t.timer
    /\ now' = now + 1
    /\ ret' = None
    /\ UNCHANGED queue_vars


\* ======================================================== SessionManager
NoTime == -1

SeqRange(s) == {s[i] : i \in 1..Len(s)}

SeqRemove(s, x) == SelectSeq(s, LAMBDA y : y # x)

\* what a session call returns (ok: a client and no error code) and the
\* users on whose client it called disconnect()
SessionRet(ok, msg, disconnected) ==
    [ok |-> ok, msg |-> msg, disconnected |-> disconnected, started |-> <<>>]

\* every session taken for evictable
EvictableSessionsAll == active_sessions

\* the sessions without an active download, least recently used first
EvictableSessions == SelectSeq(active_sessions, LAMBDA uid : uid \notin active_downloads)

\* line 78 with evictable_sessions[-1]: the most recently used idle session
newest_idle_user == EvictableSessions[Len(EvictableSessions)]

\* line 78: evictable_sessions[0]
oldest_idle_user == Head(EvictableSessions)

\* line 67 with > for >=
AtCapacityOffByOne == Len(active_sessions) > max_sessions

\* line 67
AtCapacity == Len(active_sessions) >= max_sessions

\* TelegramClient(...), connect(), is_user_authorized() and what follows.
\* outcome: "ok", "unauthorized" (disconnect() succeeds), "error" (an
\* exception anywhere in the try block)
CreateSession(user_id, outcome, sessions, activity, disconnected) ==
    IF outcome = "ok"
    THEN /\ active_sessions' = Append(sessions, user_id)
         /\ last_activity' = [activity EXCEPT ![user_id] = now]
         /\ ret' = SessionRet(TRUE, "client", disconnected)
    ELSE /\ active_sessions' = sessions
         /\ last_activity' = activity
         /\ ret' = SessionRet(FALSE,
                              IF outcome = "unauthorized" THEN "invalid_session"
                              ELSE "creation_failed",
                              disconnected)

Outcomes == {"ok", "unauthorized", "error"}

\* get_or_create_session; disconnect_fails: the evicted client's disconnect()
\* raises
GetOrCreateSession(user_id, outcome, disconnect_fails) ==
  /\ UNCHANGED <<max_sessions, queue_vars, alloc_vars, ads_vars, now>>
  /\
    IF user_id \in SeqRange(active_sessions)
    THEN /\ active_sessions' = Append(SeqRemove(active_sessions, user_id), user_id)
         /\ last_activity' = [last_activity EXCEPT ![user_id] = now]
         /\ ret' = SessionRet(TRUE, "client", {})
    ELSE IF AtCapacity
    THEN IF EvictableSessions # <<>>
         THEN CreateSession(user_id, outcome,
                  SeqRemove(active_sessions, oldest_idle_user),
                  IF disconnect_fails THEN last_activity
                  ELSE [last_activity EXCEPT ![oldest_idle_user] = NoTime],
                  {oldest_idle_user})
         ELSE /\ ret' = SessionRet(FALSE, "slots_full", {})
              /\ UNCHANGED session_vars
    ELSE CreateSession(user_id, outcome, active_sessions, last_activity, {})

\* remove_session
RemoveSession(user_id, disconnect_fails) ==
  /\ UNCHANGED <<max_sessions, queue_vars, alloc_vars, ads_vars, now>>
  /\
    IF user_id \in SeqRange(active_sessions)
    THEN IF disconnect_fails
         THEN /\ ret' = SessionRet(TRUE, "None", {user_id})
              /\ UNCHANGED session_vars
         ELSE /\ active_sessions' = SeqRemove(active_sessions, user_id)
              /\ last_activity' = [last_activity EXCEPT ![user_id] = NoTime]
              /\ ret' = SessionRet(TRUE, "None", {user_id})
    ELSE /\ ret' = SessionRet(TRUE, "None", {})
         /\ UNCHANGED session_vars

\* disconnect_all
DisconnectAll ==
    /\ UNCHANGED <<max_sessions, queue_vars, alloc_vars, ads_vars, now>>
    /\ active_sessions' = <<>>
    /\ last_activity' = [u \in Users |-> NoTime]
    /\ ret' = SessionRet(TRUE, "None", SeqRange(active_sessions))

\* the users cleanup_idle_sessions finds idle
IdleUsers ==
    {u \in Users : last_activity[u] # NoTime /\ now - last_activity[u] > idle_timeout_seconds}

\* cleanup_idle_sessions; failing: the users whose client's disconnect() raises
CleanupIdleSessions(failing) ==
    /\ UNCHANGED <<max_sessions, queue_vars, alloc_vars, ads_vars, now>>
    /\ LET idle == IdleUsers \cap SeqRange(active_sessions)
           gone == idle \ failing
       IN  /\ active_sessions' = SelectSeq(active_sessions, LAMBDA u : u \notin gone)
           /\ last_activity' = [u \in Users |-> IF u \in gone THEN NoTime ELSE last_activity[u]]
           /\ ret' = SessionRet(TRUE, "count", idle)

SessionInit(args) ==
    /\ max_sessions = args.max_sessions
    /\ active_sessions = <<>>
    /\ last_activity = [u \in Users |-> NoTime]

\* =================================================== ConnectionAllocator
NumCallers == 3
MaxTransferId == 5

Callers == 1..NumCallers
TransferIds == 1..MaxTransferId

\* (total_connections, min_per_transfer, max_per_transfer): the defaults of
\* the environment variables, a small pool, and a pool whose minimum is
\* configured above its maximum
DefaultConfig == [total |-> 96, min |-> 6, max |-> 16]

Configs ==
    { DefaultConfig,
      [total |-> 7,  min |-> 2, max |-> 5],
      [total |-> 7,  min |-> 3, max |-> 2] }

\* one file size of each weight class: nothing, and the three thresholds
FileSizes == {0, 100 * 1024, 1024 * 1024, 10 * 1024 * 1024}

\* a caller: outside allocate and release ("idle"), inside allocate's wait
\* loop ("waiting": its transfer id and file size, and whether a notify_all
\* has woken it), or between allocate and release ("holding": what allocate
\* returned)
Idle == [pc |-> "idle"]

Waiting(transfer_id, file_size, notified) ==
    [pc |-> "waiting", transfer_id |-> transfer_id, file_size |-> file_size,
     notified |-> notified]

Holding(transfer_id, connections) ==
    [pc |-> "holding", transfer_id |-> transfer_id, connections |-> connections]

\* lines 117-121 with > for >=
SizeWeightAbove(file_size) ==
    IF file_size > 10 * 1024 * 1024 THEN 10
    ELSE IF file_size > 1 * 1024 * 1024 THEN 8
    ELSE IF file_size > 100 * 1024 THEN 6
    ELSE 4

\* size_weight, in tenths
SizeWeight(file_size) ==
    IF file_size >= 10 * 1024 * 1024 THEN 10
    ELSE IF file_size >= 1 * 1024 * 1024 THEN 8
    ELSE IF file_size >= 100 * 1024 THEN 6
    ELSE 4

Max(a, b) == IF a >= b THEN a ELSE b
Min(a, b) == IF a <= b THEN a ELSE b

ActiveCount == Cardinality({t \in DOMAIN active_transfers : active_transfers[t] # 0})

\* line 128 left out: the allocation is not capped by what is available
AllocatedUncapped(file_size, available) ==
    LET active_count == ActiveCount + 1
        fair_share == total_connections \div active_count
        weighted == (fair_share * SizeWeight(file_size)) \div 10
    IN  Max(min_per_transfer, Min(weighted, max_per_transfer))

\* line 127 without min(allocated, max_per_transfer)
AllocatedNoMaximum(file_size, available) ==
    LET active_count == ActiveCount + 1
        fair_share == total_connections \div active_count
        weighted == (fair_share * SizeWeight(file_size)) \div 10
    IN  Min(Max(min_per_transfer, weighted), available)

\* the allocation computed once the wait is over
Allocated(file_size, available) ==
    LET active_count == ActiveCount + 1
        fair_share == total_connections \div active_count
        weighted == (fair_share * SizeWeight(file_size)) \div 10
        clamped == Max(min_per_transfer, Min(weighted, max_per_transfer))
    IN  Min(clamped, available)

\* the two assert statements of allocate
AssertionsHold(allocated) ==
    /\ allocated >= min_per_transfer
    /\ connections_in_use + allocated <= total_connections

\* the tail of allocate for caller c, the lock held and the wait over
Grant(c, transfer_id, file_size) ==
    LET available == total_connections - connections_in_use
        allocated == Allocated(file_size, available)
    IN  IF AssertionsHold(allocated)
        THEN /\ active_transfers' = [active_transfers EXCEPT ![transfer_id] = allocated]
             /\ connections_in_use' = connections_in_use + allocated
             /\ callers' = [callers EXCEPT ![c] = Holding(transfer_id, allocated)]
             /\ ret' = None
        ELSE /\ callers' = [callers EXCEPT ![c] = Idle]
             /\ ret' = Ret(FALSE, "AssertionError")
             /\ UNCHANGED <<active_transfers, connections_in_use>>

\* must a caller that holds the lock wait on the condition?
MustWait == total_connections - connections_in_use < min_per_transfer

\* allocate, up to its first wait or its return; transfer_id 0 is None
Allocate(c, file_size, transfer_id) ==
    /\ UNCHANGED <<queue_vars, session_vars, now>>
    /\ UNCHANGED <<total_connections, min_per_transfer, max_per_transfer>>
    /\ callers[c].pc = "idle"
    /\ transfer_id = 0 => transfer_counter + 1 \in DOMAIN active_transfers
    /\ transfer_counter' = IF transfer_id = 0 THEN transfer_counter + 1 ELSE transfer_counter
    /\ LET tid == IF transfer_id = 0 THEN transfer_counter + 1 ELSE transfer_id
       IN  IF MustWait
           THEN /\ waiting_count' = waiting_count + 1
                /\ callers' = [callers EXCEPT ![c] = Waiting(tid, file_size, FALSE)]
                /\ ret' = None
                /\ UNCHANGED <<active_transfers, connections_in_use>>
           ELSE /\ Grant(c, tid, file_size)
                /\ UNCHANGED waiting_count

\* a notified waiter gets the lock back and tests the while condition again
WaiterWakes(c) ==
    /\ UNCHANGED <<queue_vars, session_vars, now>>
    /\ UNCHANGED <<total_connections, min_per_transfer, max_per_transfer, transfer_counter>>
    /\ callers[c].pc = "waiting"
    /\ callers[c].notified
    /\ IF MustWait
       THEN /\ callers' = [callers EXCEPT ![c] =
                   Waiting(callers[c].transfer_id, callers[c].file_size, FALSE)]
            /\ ret' = None
            /\ UNCHANGED <<active_transfers, connections_in_use, waiting_count>>
       ELSE /\ waiting_count' = waiting_count - 1
            /\ Grant(c, callers[c].transfer_id, callers[c].file_size)

\* wait_for times out (or the waiting task is cancelled): the finally block
\* runs and allocate raises
WaitTimesOut(c) ==
    /\ UNCHANGED <<queue_vars, session_vars, now>>
    /\ UNCHANGED <<total_connections, min_per_transfer, max_per_transfer, transfer_counter>>
    /\ callers[c].pc = "waiting"
    /\ waiting_count' = waiting_count - 1
    /\ callers' = [callers EXCEPT ![c] = Idle]
    /\ ret' = Ret(FALSE, "TimeoutError")
    /\ UNCHANGED <<active_transfers, connections_in_use>>

\* release(transfer_id) by the caller that holds transfer_id
Release(c) ==
    /\ UNCHANGED <<queue_vars, session_vars, now>>
    /\ UNCHANGED <<total_connections, min_per_transfer, max_per_transfer, transfer_counter,
                   waiting_count>>
    /\ callers[c].pc = "holding"
    /\ LET transfer_id == callers[c].transfer_id
           released == active_transfers[transfer_id]
       IN  IF released # 0
           THEN /\ active_transfers' = [active_transfers EXCEPT ![transfer_id] = 0]
                /\ connections_in_use' = connections_in_use - released
                /\ callers' = [k \in DOMAIN callers |->
                       IF k = c THEN Idle
                       ELSE IF callers[k].pc = "waiting"
                            THEN Waiting(callers[k].transfer_id, callers[k].file_size, TRUE)
                            ELSE callers[k]]
           ELSE /\ callers' = [callers EXCEPT ![c] = Idle]
                /\ UNCHANGED <<active_transfers, connections_in_use>>
    /\ ret' = None

\* release(transfer_id) called by caller c with any id: one it holds, one
\* that another caller holds, an unknown one, one released before
ReleaseId(c, transfer_id) ==
    /\ UNCHANGED <<queue_vars, session_vars, now>>
    /\ UNCHANGED <<total_connections, min_per_transfer, max_per_transfer, transfer_counter,
                   waiting_count>>
    /\ callers[c].pc \in {"idle", "holding"}
    /\ LET released == active_transfers[transfer_id]
           after == IF callers[c].pc = "holding" /\ callers[c].transfer_id = transfer_id
                    THEN Idle
                    ELSE callers[c]
       IN  IF released # 0
           THEN /\ active_transfers' = [active_transfers EXCEPT ![transfer_id] = 0]
                /\ connections_in_use' = connections_in_use - released
                /\ callers' = [k \in DOMAIN callers |->
                       IF k = c THEN after
                       ELSE IF callers[k].pc = "waiting"
                            THEN Waiting(callers[k].transfer_id, callers[k].file_size, TRUE)
                            ELSE callers[k]]
           ELSE /\ callers' = [callers EXCEPT ![c] = after]
                /\ UNCHANGED <<active_transfers, connections_in_use>>
    /\ ret' = None

\* ---------------------------------------------------- download_media_fast
\* A download_media_fast call of caller c.  pc: "none" (no call yet),
\* "allocating" (inside borrow's allocate), "fast_download" (line 295) or
\* "download_media" (line 312) inside the borrow block, "paid_download"
\* (lines 258, 261), "fallback" (line 319), "returned", "raised".
\* fast: media_location and file_size > 0 (line 292); attempts: the
\* client.download_media calls made so far; fell_back: the except block ran
\* and did not raise ValueError.
Download(pc, fast, attempts, fell_back) ==
    [pc |-> pc, fast |-> fast, attempts |-> attempts, fell_back |-> fell_back]

NoDownload == Download("none", FALSE, 0, FALSE)

\* the messages: no media; paid media with and without extended media to
\* extract; a document of each size; a photo (no media_location)
Messages ==
    {[media |-> m, file_size |-> 0] : m \in {"none", "paid", "paid_extended"}}
        \cup {[media |-> "document", file_size |-> s] : s \in FileSizes}
        \cup {[media |-> "photo", file_size |-> 100 * 1024]}

\* how a transfer ends: it returns, it raises an exception whose text holds
\* 'paid', it raises another exception, its task is cancelled
TransferOutcomes == {"ok", "paid_error", "error", "cancelled"}

\* lines 314-319: the except block, entered with d the call's state.
\* CancelledError is no Exception: `except Exception` lets it through.
ExceptBlock(d, outcome) ==
    IF outcome \in {"paid_error", "cancelled"}
    THEN Download("raised", d.fast, d.attempts, FALSE)
    ELSE Download("fallback", d.fast, d.attempts + 1, TRUE)

\* lines 283-312, once allocate has run for caller c: it waits, it returned
\* an allocation (the borrow block starts), or it raised
AfterAllocate(c, d) ==
    IF callers'[c].pc = "waiting" THEN Download("allocating", d.fast, d.attempts, FALSE)
    ELSE IF callers'[c].pc = "holding"
    THEN IF d.fast THEN Download("fast_download", d.fast, d.attempts, FALSE)
         ELSE Download("download_media", d.fast, d.attempts + 1, FALSE)
    ELSE ExceptBlock(d, "error")

\* download_media_fast(client, message, file), up to its first await
DownloadMediaFast(c, message) ==
    /\ downloads[c].pc \in {"none", "returned", "raised"}
    /\ IF message.media \in {"none", "paid"}
       THEN /\ downloads' = [downloads EXCEPT ![c] = Download("raised", FALSE, 0, FALSE)]
            /\ ret' = Ret(FALSE, "ValueError")
            /\ UNCHANGED <<queue_vars, session_vars, now, total_connections, min_per_transfer,
                           max_per_transfer, active_transfers, transfer_counter,
                           connections_in_use, waiting_count, callers>>
       ELSE IF message.media = "paid_extended"
       THEN /\ downloads' = [downloads EXCEPT ![c] = Download("paid_download", FALSE, 1, FALSE)]
            /\ ret' = None
            /\ UNCHANGED <<queue_vars, session_vars, now, total_connections, min_per_transfer,
                           max_per_transfer, active_transfers, transfer_counter,
                           connections_in_use, waiting_count, callers>>
       ELSE /\ Allocate(c, message.file_size, 0)
            /\ downloads' = [downloads EXCEPT ![c] =
                   AfterAllocate(c, Download("allocating",
                                             message.media = "document" /\ message.file_size > 0,
                                             0, FALSE))]

\* the call's allocate is woken
BorrowWakes(c) ==
    /\ downloads[c].pc = "allocating"
    /\ WaiterWakes(c)
    /\ downloads' = [downloads EXCEPT ![c] = AfterAllocate(c, downloads[c])]

\* the call's allocate times out: TimeoutError reaches the except block
BorrowTimesOut(c) ==
    /\ downloads[c].pc = "allocating"
    /\ WaitTimesOut(c)
    /\ downloads' = [downloads EXCEPT ![c] = AfterAllocate(c, downloads[c])]

\* the task is cancelled inside the call's allocate: the wait's finally block
\* runs, CancelledError leaves borrow before its try and passes the except
\* block
BorrowCancelled(c) ==
    /\ downloads[c].pc = "allocating"
    /\ WaitTimesOut(c)
    /\ downloads' = [downloads EXCEPT ![c] = ExceptBlock(downloads[c], "cancelled")]

\* borrow with no try/finally around its yield: only a block that returns
\* reaches release
BorrowBlockEndsWithoutFinally(c, outcome) ==
    /\ downloads[c].pc \in {"fast_download", "download_media"}
    /\ IF outcome = "ok"
       THEN Release(c)
       ELSE /\ ret' = None
            /\ UNCHANGED <<queue_vars, session_vars, now, total_connections, min_per_transfer,
                           max_per_transfer, active_transfers, transfer_counter,
                           connections_in_use, waiting_count, callers>>
    /\ downloads' = [downloads EXCEPT ![c] =
           IF outcome = "ok"
           THEN Download("returned", downloads[c].fast, downloads[c].attempts,
                         downloads[c].fell_back)
           ELSE ExceptBlock(downloads[c], outcome)]

\* the borrow block is left, by return, by an exception or by the task's
\* cancellation: borrow's finally releases (release does not suspend: the
\* lock of the condition is never held across an await), then the function
\* returns or its except block runs
BorrowBlockEnds(c, outcome) ==
    /\ downloads[c].pc \in {"fast_download", "download_media"}
    /\ Release(c)
    /\ downloads' = [downloads EXCEPT ![c] =
           IF outcome = "ok"
           THEN Download("returned", downloads[c].fast, downloads[c].attempts,
                         downloads[c].fell_back)
           ELSE ExceptBlock(downloads[c], outcome)]

\* a client.download_media call outside the borrow block ends: its result,
\* or its exception, is that of download_media_fast
StandardDownloadEnds(c, outcome) ==
    /\ downloads[c].pc \in {"fallback", "paid_download"}
    /\ downloads' = [downloads EXCEPT ![c] =
           Download(IF outcome = "ok" THEN "returned" ELSE "raised",
                    downloads[c].fast, downloads[c].attempts, downloads[c].fell_back)]
    /\ ret' = IF outcome = "ok" THEN Ret(TRUE, "file") ELSE Ret(FALSE, "Exception")
    /\ UNCHANGED <<queue_vars, session_vars, now, total_connections, min_per_transfer,
                   max_per_transfer, active_transfers, transfer_counter,
                   connections_in_use, waiting_count, callers>>

\* ------------------------------------------------- cleanup_orphaned_files
\* A file under downloads/: the folder it is in (downloads/<folder>/), the
\* user whose download wrote it, and its modification time.
File(folder, user_id, mtime) == [folder |-> folder, user_id |-> user_id, mtime |-> mtime]

\* main.py line 496: get_download_path(event.id, filename).  The folder is
\* named after the message that asked for the download, one message for
\* each request; message ids are numbers apart from the user ids.
EventId(download_coro) == NumUsers + download_coro

\* the names that module queue_manager defines
QueueManagerNames ==
    {"Priority", "QueueItem", "DownloadQueueManager", "IS_CONSTRAINED", "MAX_CONCURRENT",
     "MAX_QUEUE", "download_queue"}

\* files.py lines 156-165: `from queue_manager import download_manager`; an
\* ImportError is caught and leaves the set empty
active_user_ids ==
    IF "download_manager" \in QueueManagerNames THEN active_downloads ELSE {}

\* STALE_THRESHOLD, in minutes
STALE_THRESHOLD == 45

\* file_age, in minutes: a tick of the clock is 30 minutes
file_age(f) == (now - f.mtime) * 30

\* the state of the allocator and of the download calls
transfer_state ==
    <<total_connections, min_per_transfer, max_per_transfer, active_transfers,
      transfer_counter, connections_in_use, waiting_count, callers, downloads>>

\* the download of task t writes its file (handle_download, main.py lines
\* 495-500)
DownloadWritesFile(t) ==
    /\ t \in tasks
    /\ t.timer # Cancelled
    /\ files' = {f \in files : f.folder # EventId(t.coro)}
                    \cup {File(EventId(t.coro), t.user_id, now)}
    /\ ret' = None
    /\ UNCHANGED <<queue_vars, session_vars, transfer_state, ads_vars, now>>

\* cleanup_download(path), called by the download of task t after its upload
CleanupDownload(t) ==
    /\ t \in tasks
    /\ t.timer # Cancelled
    /\ \E f \in files : f.folder = EventId(t.coro)
    /\ files' = {f \in files : f.folder # EventId(t.coro)}
    /\ ret' = None
    /\ UNCHANGED <<queue_vars, session_vars, transfer_state, ads_vars, now>>

\* cleanup_orphaned_files, the downloads folder
CleanupOrphanedFiles ==
    /\ files' = {f \in files :
                    \/ f.folder \in active_user_ids
                    \/ ~(file_age(f) > STALE_THRESHOLD)}
    /\ ret' = None
    /\ UNCHANGED <<queue_vars, session_vars, transfer_state, ads_vars, now>>

AllocInit(configs) ==
    /\ \E cfg \in configs :
          /\ total_connections = cfg.total
          /\ min_per_transfer = cfg.min
          /\ max_per_transfer = cfg.max
    /\ active_transfers = [t \in TransferIds |-> 0]
    /\ transfer_counter = 0
    /\ connections_in_use = 0
    /\ waiting_count = 0
    /\ callers = [c \in Callers |-> Idle]
    /\ downloads = [c \in Callers |-> NoDownload]
    /\ files = {}

\* ========================================================= RichAdsManager
\* richads.py line 23: self.ad_cooldown = 300
ad_cooldown == 300

MaxTimeSteps == 4

\* The readings of time(): the clock is read every half cooldown.  time()
\* counts from 1970, so that the first reading is far more than a cooldown
\* above the 0 that last_ad_time.get(user_id, 0) gives for a new user.
StartTime == 2 * ad_cooldown
TimeStep == ad_cooldown \div 2
EndTime == StartTime + MaxTimeSteps * TimeStep

\* what a call of the ad managers returns: chat_id, whether RichAds'
\* send_ad_to_user ran, whether the RichAds API was requested (the post of
\* lines 79-84), whether AdsGram's send_ad_to_user ran
AdRet(ok, msg, chat_id, called, requested, adsgram_tried) ==
    [ok |-> ok, msg |-> msg, disconnected |-> {}, started |-> <<>>, chat_id |-> chat_id,
     richads_called |-> called, requested |-> requested, adsgram_tried |-> adsgram_tried]

\* is_enabled
RichAdsEnabled == publisher_id # ""

\* _check_cooldown(user_id) with lat for self.last_ad_time: what it returns
\* and what it leaves in self.last_ad_time
CheckCooldown(lat, user_id) ==
    IF time - lat[user_id] >= ad_cooldown
    THEN [ok |-> TRUE, last_ad_time |-> [lat EXCEPT ![user_id] = time]]
    ELSE [ok |-> FALSE, last_ad_time |-> lat]

\* what the RichAds API answers: ads, an empty list, an error or a timeout
ApiOutcomes == {"ads", "no_ads", "error"}

\* fetch_ad(language_code, telegram_id): the ads it returns (FALSE: None),
\* whether it posted the request, self.last_ad_time afterwards
FetchAd(lat, telegram_id, api) ==
    IF ~RichAdsEnabled
    THEN [ads |-> FALSE, requested |-> FALSE, last_ad_time |-> lat]
    ELSE LET cooldown == CheckCooldown(lat, telegram_id)
         IN  IF ~cooldown.ok
             THEN [ads |-> FALSE, requested |-> FALSE, last_ad_time |-> cooldown.last_ad_time]
             ELSE [ads |-> api = "ads", requested |-> TRUE,
                   last_ad_time |-> cooldown.last_ad_time]

\* how sending the ad to the chat ends: sent, no click URL in the ad, an
\* exception of send_file or send_message
SendingOutcomes == {"sent", "no_link", "error"}

\* send_ad_to_user(client, chat_id, language_code) of RichAdsManager.  No
\* await lies between its _check_cooldown and the one of fetch_ad: both read
\* the same time().
RichAdsSendAdToUser(chat_id, api, sending) ==
    IF ~RichAdsEnabled
    THEN [ok |-> FALSE, msg |-> "disabled", requested |-> FALSE,
          last_ad_time |-> last_ad_time]
    ELSE LET cooldown == CheckCooldown(last_ad_time, chat_id)
             fetched == FetchAd(cooldown.last_ad_time, chat_id, api)
         IN  IF ~cooldown.ok
             THEN [ok |-> FALSE, msg |-> "cooldown", requested |-> FALSE,
                   last_ad_time |-> cooldown.last_ad_time]
             ELSE IF ~fetched.ads
             THEN [ok |-> FALSE, msg |-> "no_ads", requested |-> fetched.requested,
                   last_ad_time |-> fetched.last_ad_time]
             ELSE [ok |-> sending = "sent", msg |-> sending, requested |-> fetched.requested,
                   last_ad_time |-> fetched.last_ad_time]

\* richads.send_ad_to_user called on its own
SendAdToUser(chat_id, api, sending) ==
    /\ UNCHANGED <<queue_vars, session_vars, alloc_vars, now, publisher_id, time>>
    /\ LET sent == RichAdsSendAdToUser(chat_id, api, sending)
       IN  /\ last_ad_time' = sent.last_ad_time
           /\ ret' = AdRet(sent.ok, sent.msg, chat_id, TRUE, sent.requested, FALSE)

\* how adsgram.send_ad_to_user ends when AdManager reaches it
AdsgramOutcomes == {"disabled", "sent", "failed"}

\* send_ad_with_fallback(bot, user_id, chat_id, language_code, is_premium,
\* is_admin) in a private chat (chat_id is user_id)
SendAdWithFallback(user_id, premium, is_admin, api, sending, adsgram) ==
    /\ UNCHANGED <<queue_vars, session_vars, alloc_vars, now, publisher_id, time>>
    /\ IF premium \/ is_admin
       THEN /\ ret' = AdRet(FALSE, "skipped", user_id, FALSE, FALSE, FALSE)
            /\ UNCHANGED last_ad_time
       ELSE LET sent == RichAdsSendAdToUser(user_id, api, sending)
            IN  /\ last_ad_time' = IF RichAdsEnabled THEN sent.last_ad_time ELSE last_ad_time
                /\ ret' =
                       IF RichAdsEnabled /\ sent.ok
                       THEN AdRet(TRUE, "richads", user_id, TRUE, sent.requested, FALSE)
                       ELSE AdRet(adsgram = "sent",
                                  IF adsgram = "sent" THEN "adsgram" ELSE "no_ads_available",
                                  user_id, RichAdsEnabled,
                                  RichAdsEnabled /\ sent.requested, adsgram # "disabled")

\* time passes
TimePasses ==
    /\ UNCHANGED <<queue_vars, session_vars, alloc_vars, now, publisher_id, last_ad_time>>
    /\ time < EndTime
    /\ time' = time + TimeStep
    /\ ret' = None

\* RichAdsManager.__init__, and the clock when the bot starts
RichAdsInit(publisher_ids) ==
    /\ publisher_id \in publisher_ids
    /\ last_ad_time = [u \in Users |-> 0]
    /\ time = StartTime

\* ========================================================= specifications
\* The constructors' arguments.  The queue manager is studied with one slot
\* and a queue of two; the session manager with two sessions, beside a queue
\* manager of two slots that queues nothing.
QueueArgs == [max_concurrent |-> 1, max_queue |-> 2]
ShortQueueArgs == [max_concurrent |-> 1, max_queue |-> 1]
SessionQueueArgs == [max_concurrent |-> 2, max_queue |-> 0]
SessionArgs == [max_sessions |-> 2]

Init ==
    /\ QueueInit(QueueArgs)
    /\ SessionInit(SessionArgs)
    /\ AllocInit({DefaultConfig})
    /\ RichAdsInit({""})
    /\ now = 0
    /\ ret = None

\* the download queue manager
Next ==
    \/ \E u \in Users : AddToQueue(u, NextCoro, is_premium(u))
    \/ \E t \in tasks : ExecuteDownloadFinally(t)
    \/ StartProcessor
    \/ ProcessQueue
    \/ \E u \in Users : CancelUserDownload(u)
    \/ CancelAllDownloads
    \/ SweepStaleItems(SweepMaxAge)
    \/ Tick

Spec == Init /\ [][Next]_vars

\* the download queue manager with a queue of one: the objects at hand
\* outnumber its slot and its queue
ShortQueueInit ==
    /\ QueueInit(ShortQueueArgs)
    /\ SessionInit(SessionArgs)
    /\ AllocInit({DefaultConfig})
    /\ RichAdsInit({""})
    /\ now = 0
    /\ ret = None

ShortQueueSpec == ShortQueueInit /\ [][Next]_vars

\* The download queue manager when no cancellation is requested, on an event
\* loop that keeps running the processor's loop (_process_queue sleeps one
\* second and takes the lock again, while _processing) and on which every
\* download ends (wait_for's timeout at the latest).  No fairness for the
\* users' requests, the watchdog's sweep or the clock.
QueueFairNext ==
    \/ \E u \in Users : AddToQueue(u, NextCoro, is_premium(u))
    \/ \E t \in tasks : ExecuteDownloadFinally(t)
    \/ StartProcessor
    \/ ProcessQueue
    \/ SweepStaleItems(SweepMaxAge)
    \/ Tick

QueueFairSpec ==
    /\ Init
    /\ [][QueueFairNext]_vars
    /\ WF_vars(ProcessQueue)
    /\ WF_vars(\E t \in tasks : ExecuteDownloadFinally(t))

\* the session manager, beside the downloads that start and finish
SessionInitAll ==
    /\ QueueInit(SessionQueueArgs)
    /\ SessionInit(SessionArgs)
    /\ AllocInit({DefaultConfig})
    /\ RichAdsInit({""})
    /\ now = 0
    /\ ret = None

SessionNext ==
    \/ \E u \in SessionUsers, o \in Outcomes, f \in BOOLEAN :
           GetOrCreateSession(u, o, f)
    \/ \E u \in SessionUsers, f \in BOOLEAN : RemoveSession(u, f)
    \/ DisconnectAll
    \/ \E failing \in SUBSET SeqRange(active_sessions) : CleanupIdleSessions(failing)
    \/ \E u \in SessionUsers : AddToQueue(u, NextCoro, is_premium(u))
    \/ \E t \in tasks : ExecuteDownloadFinally(t)
    \/ Tick

SessionSpec == SessionInitAll /\ [][SessionNext]_vars

\* the connection allocator
AllocInitAll ==
    /\ QueueInit(QueueArgs)
    /\ SessionInit(SessionArgs)
    /\ AllocInit(Configs)
    /\ RichAdsInit({""})
    /\ now = 0
    /\ ret = None

AllocNext ==
    \/ \E c \in Callers, s \in FileSizes : Allocate(c, s, 0) /\ UNCHANGED <<downloads, files, ads_vars>>
    \/ \E c \in Callers : WaiterWakes(c) /\ UNCHANGED <<downloads, files, ads_vars>>
    \/ \E c \in Callers : WaitTimesOut(c) /\ UNCHANGED <<downloads, files, ads_vars>>
    \/ \E c \in Callers : Release(c) /\ UNCHANGED <<downloads, files, ads_vars>>

AllocSpec == AllocInitAll /\ [][AllocNext]_vars

\* The allocator called directly: allocate with no transfer_id or with one
\* the caller chose, release with any id.  A small pool, files of the
\* largest weight class.
AllocIdsConfigs == {[total |-> 7, min |-> 2, max |-> 5]}

AllocIdsFileSizes == {10 * 1024 * 1024}

AllocIdsInit ==
    /\ QueueInit(QueueArgs)
    /\ SessionInit(SessionArgs)
    /\ AllocInit(AllocIdsConfigs)
    /\ RichAdsInit({""})
    /\ now = 0
    /\ ret = None

AllocIdsNext ==
    \/ \E c \in Callers, s \in AllocIdsFileSizes, transfer_id \in {0} \cup TransferIds :
           Allocate(c, s, transfer_id) /\ UNCHANGED <<downloads, files, ads_vars>>
    \/ \E c \in Callers : WaiterWakes(c) /\ UNCHANGED <<downloads, files, ads_vars>>
    \/ \E c \in Callers : WaitTimesOut(c) /\ UNCHANGED <<downloads, files, ads_vars>>
    \/ \E c \in Callers, transfer_id \in TransferIds :
           ReleaseId(c, transfer_id) /\ UNCHANGED <<downloads, files, ads_vars>>

AllocIdsSpec == AllocIdsInit /\ [][AllocIdsNext]_vars

\* The allocator on an event loop that runs every task that is ready: a
\* waiter that notify_all has woken gets the lock back and tests the loop
\* condition, and does so before the 300 s timeout of its wait can fire; and
\* a transfer ends, so that borrow's finally block calls release.  No
\* fairness for the callers of allocate, nor for the timeout of a wait.
AllocFairNext ==
    \/ \E c \in Callers, s \in FileSizes : Allocate(c, s, 0) /\ UNCHANGED <<downloads, files, ads_vars>>
    \/ \E c \in Callers : WaiterWakes(c) /\ UNCHANGED <<downloads, files, ads_vars>>
    \/ \E c \in Callers :
           /\ callers[c].pc = "waiting"
           /\ ~callers[c].notified
           /\ WaitTimesOut(c)
           /\ UNCHANGED <<downloads, files, ads_vars>>
    \/ \E c \in Callers : Release(c) /\ UNCHANGED <<downloads, files, ads_vars>>

AllocFairSpec ==
    /\ AllocInitAll
    /\ [][AllocFairNext]_vars
    /\ \A c \in Callers :
           /\ WF_vars(WaiterWakes(c) /\ UNCHANGED <<downloads, files, ads_vars>>)
           /\ WF_vars(Release(c) /\ UNCHANGED <<downloads, files, ads_vars>>)

\* The allocator of the default configuration with the ten concurrent users
\* of the class docstring: user c starts the c-th transfer, of a file of the
\* lightest or of the heaviest weight class, each user starts one transfer,
\* and the transfers are concurrent: none ends before the last has started.
ConcurrentUsers == 10

TenUsersFileSizes == {0, 10 * 1024 * 1024}

TenUsersInit ==
    /\ QueueInit(QueueArgs)
    /\ SessionInit(SessionArgs)
    /\ total_connections = DefaultConfig.total
    /\ min_per_transfer = DefaultConfig.min
    /\ max_per_transfer = DefaultConfig.max
    /\ active_transfers = [t \in 1..ConcurrentUsers |-> 0]
    /\ transfer_counter = 0
    /\ connections_in_use = 0
    /\ waiting_count = 0
    /\ callers = [c \in 1..ConcurrentUsers |-> Idle]
    /\ downloads = [c \in 1..ConcurrentUsers |-> NoDownload]
    /\ files = {}
    /\ RichAdsInit({""})
    /\ now = 0
    /\ ret = None

TenUsersNext ==
    \/ \E s \in TenUsersFileSizes :
           /\ transfer_counter < ConcurrentUsers
           /\ Allocate(transfer_counter + 1, s, 0)
           /\ UNCHANGED <<downloads, files, ads_vars>>
    \/ \E c \in 1..ConcurrentUsers : WaiterWakes(c) /\ UNCHANGED <<downloads, files, ads_vars>>
    \/ \E c \in 1..ConcurrentUsers : WaitTimesOut(c) /\ UNCHANGED <<downloads, files, ads_vars>>
    \/ \E c \in 1..ConcurrentUsers :
           /\ transfer_counter = ConcurrentUsers
           /\ Release(c)
           /\ UNCHANGED <<downloads, files, ads_vars>>

TenUsersSpec == TenUsersInit /\ [][TenUsersNext]_vars

\* The whole download queue manager on an event loop on which every task
\* ends: wait_for(download_coro, timeout=1800) bounds the coroutine, and a
\* cancelled task gets its CancelledError; either way the task reaches the
\* finally block of _execute_download.  No fairness for anything else.
\* The clock does not move: every task ends within its 30 minutes.
TaskEnds(download_coro) ==
    \E t \in tasks : t.coro = download_coro /\ ExecuteDownloadFinally(t)

TasksEndNext ==
    \/ \E u \in Users : AddToQueue(u, NextCoro, is_premium(u))
    \/ \E t \in tasks : ExecuteDownloadFinally(t)
    \/ StartProcessor
    \/ ProcessQueue
    \/ \E u \in Users : CancelUserDownload(u)
    \/ CancelAllDownloads
    \/ SweepStaleItems(SweepMaxAge)

TasksEndSpec ==
    /\ Init
    /\ [][TasksEndNext]_vars
    /\ \A download_coro \in 1..MaxObjects : WF_vars(TaskEnds(download_coro))

\* the downloads folder: downloads that write and remove their files, and
\* the watchdog's cleanup
FilesInit ==
    /\ QueueInit(SessionQueueArgs)
    /\ SessionInit(SessionArgs)
    /\ AllocInit({DefaultConfig})
    /\ RichAdsInit({""})
    /\ now = 0
    /\ ret = None

FilesNext ==
    \/ \E u \in Users : AddToQueue(u, NextCoro, is_premium(u))
    \/ \E t \in tasks : ExecuteDownloadFinally(t)
    \/ \E t \in tasks : DownloadWritesFile(t)
    \/ \E t \in tasks : CleanupDownload(t)
    \/ CleanupOrphanedFiles
    \/ Tick

FilesSpec == FilesInit /\ [][FilesNext]_vars

\* download_media_fast called by concurrent downloads
DownloadNext ==
    \/ \E c \in Callers, message \in Messages :
           DownloadMediaFast(c, message) /\ UNCHANGED <<files, ads_vars>>
    \/ \E c \in Callers : BorrowWakes(c) /\ UNCHANGED <<files, ads_vars>>
    \/ \E c \in Callers : BorrowTimesOut(c) /\ UNCHANGED <<files, ads_vars>>
    \/ \E c \in Callers : BorrowCancelled(c) /\ UNCHANGED <<files, ads_vars>>
    \/ \E c \in Callers, outcome \in TransferOutcomes :
           BorrowBlockEnds(c, outcome) /\ UNCHANGED <<files, ads_vars>>
    \/ \E c \in Callers, outcome \in TransferOutcomes :
           StandardDownloadEnds(c, outcome) /\ UNCHANGED <<files, ads_vars>>

DownloadSpec == AllocInitAll /\ [][DownloadNext]_vars

\* the ad managers, RichAds configured or not
PublisherIds == {"", "publisher"}

AdsInit ==
    /\ QueueInit(QueueArgs)
    /\ SessionInit(SessionArgs)
    /\ AllocInit({DefaultConfig})
    /\ RichAdsInit(PublisherIds)
    /\ now = 0
    /\ ret = None

AdsNext ==
    \/ \E chat_id \in Users, api \in ApiOutcomes, sending \in SendingOutcomes :
           SendAdToUser(chat_id, api, sending)
    \/ \E user_id \in Users, is_admin \in BOOLEAN, api \in ApiOutcomes,
          sending \in SendingOutcomes, adsgram \in AdsgramOutcomes :
           SendAdWithFallback(user_id, is_premium(user_id), is_admin, api, sending, adsgram)
    \/ TimePasses

AdsSpec == AdsInit /\ [][AdsNext]_vars

\* ============================================================= properties
\* the positions in waiting_queue of the items of user u
ItemsOf(u) == {i \in 1..Len(waiting_queue) : waiting_queue[i].user_id = u}

\* the position in the list wq of the item whose coroutine is c, 0 when none
PositionOf(wq, c) ==
    IF \E i \in 1..Len(wq) : wq[i].download_coro = c
    THEN CHOOSE i \in 1..Len(wq) : wq[i].download_coro = c
    ELSE 0

\* the four collections of the queue manager are left as they were
QueueUnchanged ==
    UNCHANGED <<active_downloads, waiting_queue, user_queue_positions, active_tasks>>

\* C1: in every reachable state no user is in active_downloads and in
\* waiting_queue at once, and no user has more than one item in
\* waiting_queue.
C1_OneItemOrDownloadPerUser ==
    \A u \in Users :
        /\ ~(u \in active_downloads /\ ItemsOf(u) # {})
        /\ Cardinality(ItemsOf(u)) <= 1

\* C2: in every reachable state 0 <= _connections_in_use <= total_connections,
\* and neither assertion of allocate has failed.
C2_PoolNeverOversubscribed ==
    /\ 0 <= connections_in_use
    /\ connections_in_use <= total_connections
    /\ ret.msg # "AssertionError"

\* the whole pool is handed out while a waiter that a release has woken has
\* still to test the loop condition again
C2_Witness ==
    /\ connections_in_use = total_connections
    /\ \E c \in Callers : callers[c].pc = "waiting" /\ callers[c].notified
    /\ \E c \in Callers : callers[c].pc = "holding"

\* C3: in every reachable state active_sessions has at most max_sessions
\* entries.
C3_SessionsBounded == Len(active_sessions) <= max_sessions

\* a session was created at capacity, after an eviction
C3_Witness ==
    /\ Len(active_sessions) = max_sessions
    /\ ret.msg = "client"
    /\ ret.disconnected # {}

\* the step disconnects, or removes, the session of a user that is in
\* active_downloads when the step is taken
HitsActiveSession ==
    \/ ret'.disconnected \cap active_downloads # {}
    \/ (SeqRange(active_sessions) \ SeqRange(active_sessions')) \cap active_downloads # {}

\* C4: a get_or_create_session call never disconnects, and never removes, the
\* session of a user that is in active_downloads when the call runs: a step
\* that does so is not a step of get_or_create_session.
C4_EvictionSparesActive ==
    [][HitsActiveSession =>
          \A u \in SessionUsers, o \in Outcomes, f \in BOOLEAN :
              ~GetOrCreateSession(u, o, f)]_vars

\* a session was evicted although the least recently used session is that
\* of a user with an active download
C4_Witness ==
    /\ ret.msg \in {"client", "invalid_session", "creation_failed"}
    /\ ret.disconnected # {}
    /\ active_sessions # <<>>
    /\ Head(active_sessions) \in active_downloads

C6_PromotionOrder ==
    [][/\ ProcessQueue =>
            \A i \in 1..(Len(waiting_queue) - Len(waiting_queue')) :
                \A j \in (i + 1)..Len(waiting_queue) :
                    /\ ~ItemLt(waiting_queue[j], waiting_queue[i])
                    /\ waiting_queue[i].priority = FREE =>
                           waiting_queue[j].priority # PREMIUM
       /\ \A a, b \in 1..MaxObjects :
              (/\ waiting_queue' # waiting_queue
               /\ PositionOf(waiting_queue, a) # 0
               /\ PositionOf(waiting_queue, a) < PositionOf(waiting_queue, b)
               /\ PositionOf(waiting_queue', a) # 0
               /\ PositionOf(waiting_queue', b) # 0)
                  => PositionOf(waiting_queue', a) < PositionOf(waiting_queue', b)
       /\ \A a, b \in 1..MaxObjects :
              (/\ Len(waiting_queue') > Len(waiting_queue)
               /\ PositionOf(waiting_queue, a) # 0
               /\ PositionOf(waiting_queue', a) # 0
               /\ PositionOf(waiting_queue, b) = 0
               /\ PositionOf(waiting_queue', b) # 0
               /\ waiting_queue'[PositionOf(waiting_queue', b)].priority
                      = waiting_queue'[PositionOf(waiting_queue', a)].priority)
                  => PositionOf(waiting_queue', a) < PositionOf(waiting_queue', b)]_vars

\* the processor has started a PREMIUM item and a FREE item with an earlier
\* timestamp is still waiting
C6_Witness ==
    /\ ret.started # <<>>
    /\ ret.started[1].priority = PREMIUM
    /\ \E i \in 1..Len(waiting_queue) :
           /\ waiting_queue[i].priority = FREE
           /\ TimeLt(waiting_queue[i].timestamp, ret.started[1].timestamp)

\* C7: in every reachable state active_downloads has at most max_concurrent
\* users.
C7_ActiveBounded == Cardinality(active_downloads) <= max_concurrent

\* add_to_queue found every slot taken and queued the request
C7_Witness ==
    /\ Cardinality(active_downloads) = max_concurrent
    /\ ret.msg = "queued"

\* C8 as amended: waiting_queue never holds more than max_queue items; an
\* add_to_queue call made when active_downloads holds max_concurrent users
\* and waiting_queue holds max_queue items returns False and leaves the four
\* collections unchanged, with the "queue is full" message when the caller
\* has neither an active download nor a queue position.
C8_QueueBoundedFullRejects ==
    [][/\ Len(waiting_queue') <= max_queue'
       /\ \A u \in Users :
              (/\ Cardinality(active_downloads) = max_concurrent
               /\ Len(waiting_queue) = max_queue
               /\ AddToQueue(u, NextCoro, is_premium(u)))
                  => /\ ret'.ok = FALSE
                     /\ ~AddRejects(u) => ret'.msg = "queue_full"
                     /\ QueueUnchanged]_vars

\* a user with no download and no queue position was turned away from a full
\* queue
C8_Witness ==
    /\ ret.msg = "queue_full"
    /\ Len(waiting_queue) = max_queue
    /\ Cardinality(active_downloads) = max_concurrent

\* C8 as stated: the same, with the "queue is full" message for every caller.
C8_AsStated ==
    [][/\ Len(waiting_queue') <= max_queue'
       /\ \A u \in Users :
              (/\ Cardinality(active_downloads) = max_concurrent
               /\ Len(waiting_queue) = max_queue
               /\ AddToQueue(u, NextCoro, is_premium(u)))
                  => /\ ret'.ok = FALSE
                     /\ ret'.msg = "queue_full"
                     /\ QueueUnchanged]_vars

\* C9: add_to_queue for a user that is in active_downloads or has an item in
\* waiting_queue returns False, leaves the four collections unchanged and
\* creates no task.
C9_DuplicateRejected ==
    [][\A u \in Users :
          (/\ u \in active_downloads \/ ItemsOf(u) # {}
           /\ AddToQueue(u, NextCoro, is_premium(u)))
              => /\ ret'.ok = FALSE
                 /\ QueueUnchanged
                 /\ UNCHANGED tasks]_vars

\* C10: with min_per_transfer <= max_per_transfer <= total_connections, what
\* allocate returned to a caller lies between min_per_transfer and
\* max_per_transfer.
C10_AllocationWithinLimits ==
    (min_per_transfer <= max_per_transfer /\ max_per_transfer <= total_connections) =>
        \A c \in Callers :
            callers[c].pc = "holding" =>
                /\ min_per_transfer <= callers[c].connections
                /\ callers[c].connections <= max_per_transfer

\* one caller holds the maximum and another the minimum
C10_Witness ==
    /\ min_per_transfer < max_per_transfer
    /\ max_per_transfer <= total_connections
    /\ \E c, d \in Callers :
           /\ callers[c].pc = "holding"
           /\ callers[c].connections = max_per_transfer
           /\ callers[d].pc = "holding"
           /\ callers[d].connections = min_per_transfer

\* the weight w of a file size, in tenths
WeightTenths(file_size) ==
    CASE file_size >= 10485760 -> 10
      [] file_size >= 1048576 /\ file_size < 10485760 -> 8
      [] file_size >= 102400 /\ file_size < 1048576 -> 6
      [] file_size < 102400 -> 4

\* min(available, max(min_per_transfer, min(max_per_transfer,
\* floor(w * (total_connections div (n + 1)))))) in the state before the grant
GrantFormula(file_size) ==
    LET n == Cardinality({t \in TransferIds : active_transfers[t] # 0})
        available == total_connections - connections_in_use
        share == (WeightTenths(file_size) * (total_connections \div (n + 1))) \div 10
        capped == IF share < max_per_transfer THEN share ELSE max_per_transfer
        floored == IF capped > min_per_transfer THEN capped ELSE min_per_transfer
    IN  IF floored < available THEN floored ELSE available

\* C11: a step in which allocate grants connections to a caller grants
\* min(available, max(min, min(max, floor(w * (total div (n + 1)))))), n and
\* available taken when the grant is made and w from the file size: of the
\* call for a caller that did not wait, of the waiter for one that did.
C11_GrantedAmount ==
    [][\A c \in Callers :
          (callers[c].pc # "holding" /\ callers'[c].pc = "holding") =>
              /\ callers[c].pc = "waiting" =>
                     callers'[c].connections = GrantFormula(callers[c].file_size)
              /\ callers[c].pc = "idle" =>
                     \A file_size \in FileSizes :
                         Allocate(c, file_size, 0) =>
                             callers'[c].connections = GrantFormula(file_size)
              /\ active_transfers'[callers'[c].transfer_id] = callers'[c].connections]_vars

\* a grant strictly between the minimum and the maximum, and a grant that
\* what was available has cut below the caller's share
C11_Witness ==
    /\ \E c \in Callers :
           /\ callers[c].pc = "holding"
           /\ min_per_transfer < callers[c].connections
           /\ callers[c].connections < max_per_transfer
    /\ connections_in_use = total_connections

\* the transfer ids of the allocate calls that wait
WaitingIds == {callers[c].transfer_id : c \in {k \in Callers : callers[k].pc = "waiting"}}

\* C12: (1) a step in which allocate returns an allocation starts with
\* total_connections - _connections_in_use >= min_per_transfer; (2) a
\* release that leaves that availability at min_per_transfer or more leaves
\* every waiter notified; (3) from a state in which calls wait and the
\* availability is at least min_per_transfer, one of those calls eventually
\* holds an allocation.
C12_WaitersServed ==
    /\ [][\A c \in Callers :
             (callers[c].pc # "holding" /\ callers'[c].pc = "holding") => ~MustWait]_vars
    /\ [][(connections_in_use' < connections_in_use /\ ~MustWait') =>
             \A c \in Callers : callers'[c].pc = "waiting" => callers'[c].notified]_vars
    /\ \A S \in SUBSET TransferIds :
           [](((S # {} /\ S = WaitingIds /\ ~MustWait)) =>
                 <>(\E c \in Callers :
                        callers[c].pc = "holding" /\ callers[c].transfer_id \in S))

\* C13: with the default configuration (96 connections, 6 to 16 a transfer),
\* none of the allocate calls of ten concurrent transfers has to wait for a
\* release, and when the ten transfers all hold connections each holds about
\* 96/10 of them: 9 or 10.
C13_TenTransfersHoldAtOnce ==
    /\ total_connections = 96 /\ min_per_transfer = 6 /\ max_per_transfer = 16
    /\ \A c \in DOMAIN callers : callers[c].pc # "waiting"
    /\ (\A c \in DOMAIN callers : callers[c].pc = "holding") =>
           \A c \in DOMAIN callers : callers[c].connections \in {9, 10}

\* the place of a user's session in active_sessions
SessionIndex(uid) == CHOOSE i \in 1..Len(active_sessions) : active_sessions[i] = uid

\* C14: a get_or_create_session call for a user without a session, made while
\* active_sessions holds max_sessions entries of which at least one belongs
\* to a user outside active_downloads, evicts exactly one session: that of a
\* user outside active_downloads, and among those the least recently used
\* one (first in active_sessions, and with no later last_activity).
C14_EvictsLeastRecentlyUsed ==
    [][(AtCapacity /\ EvictableSessions # <<>>) =>
          \A u \in SessionUsers \ SeqRange(active_sessions), o \in Outcomes, f \in BOOLEAN :
              GetOrCreateSession(u, o, f) =>
                  \E e \in SeqRange(active_sessions) \ active_downloads :
                      /\ SeqRange(active_sessions) \ SeqRange(active_sessions') = {e}
                      /\ ret'.disconnected = {e}
                      /\ \A v \in SeqRange(active_sessions) \ (active_downloads \cup {e}) :
                             /\ SessionIndex(e) < SessionIndex(v)
                             /\ last_activity[e] <= last_activity[v]]_vars

\* a session was evicted (its disconnect() raised, so its last_activity
\* entry is still there) while a more recently used session of a user
\* without an active download was kept
C14_Witness ==
    /\ ret.msg = "client"
    /\ ret.disconnected # {}
    /\ Len(active_sessions) = max_sessions
    /\ Head(active_sessions) \notin active_downloads
    /\ \A e \in ret.disconnected :
           /\ last_activity[e] # NoTime
           /\ last_activity[e] < last_activity[Head(active_sessions)]

\* C15: a get_or_create_session call for a user without a session, made while
\* active_sessions holds max_sessions entries and every one of those users
\* is in active_downloads, returns (None, 'slots_full'), disconnects no
\* client and leaves active_sessions and last_activity unchanged.
C15_SlotsFullChangesNothing ==
    [][(AtCapacity /\ SeqRange(active_sessions) \subseteq active_downloads) =>
          \A u \in SessionUsers \ SeqRange(active_sessions), o \in Outcomes, f \in BOOLEAN :
              GetOrCreateSession(u, o, f) =>
                  /\ ret' = SessionRet(FALSE, "slots_full", {})
                  /\ active_sessions' = active_sessions
                  /\ last_activity' = last_activity]_vars

\* a call was answered 'slots_full': every session belongs to a user with an
\* active download
C15_Witness ==
    /\ ret.msg = "slots_full"
    /\ Len(active_sessions) = max_sessions
    /\ SeqRange(active_sessions) \subseteq active_downloads

\* C16: when the try block of download_media_fast raises an exception that
\* is not a paid-media error (a timeout of allocate included), the call
\* makes exactly one client.download_media attempt, the fallback, and none
\* after it; and when the fallback starts the connections borrowed for the
\* failed attempt are released: the caller holds no allocation.
C16_OneFallbackAfterRelease ==
    \A c \in Callers :
        downloads[c].fell_back =>
            /\ downloads[c].attempts = 1
            /\ downloads[c].pc \in {"fallback", "returned", "raised"}
            /\ downloads[c].pc = "fallback" => callers[c].pc = "idle"

\* the items of waiting_queue that the step takes out of it
LeavingItems ==
    {waiting_queue[i] : i \in {k \in 1..Len(waiting_queue) :
        \A j \in 1..Len(waiting_queue') :
            waiting_queue'[j].download_coro # waiting_queue[k].download_coro}}

\* C17: an item accepted into waiting_queue leaves it only by being promoted
\* by the queue processor (a task is started for it) or by a cancellation
\* request: cancel_user_download, or cancel_all_downloads.  No other step
\* takes an item out of waiting_queue.  (Which user's cancel_user_download
\* takes which item out is the matter of C19; any is allowed here.)
C17_LeavesByPromotionOrCancel ==
    [][waiting_queue' # waiting_queue =>
          \A item \in LeavingItems :
              \/ \E k \in 1..Len(ret'.started) : ret'.started[k] = item
              \/ \E u \in Users : CancelUserDownload(u)
              \/ CancelAllDownloads]_vars

\* C18: while the processor runs, whenever waiting_queue is not empty and
\* active_downloads holds fewer than max_concurrent users, the head item is
\* eventually promoted (the processor starts its task); and a pass of the
\* processor promotes until the queue is empty or the active set is full.
C18_HeadEventuallyPromoted ==
    /\ \A h \in 1..MaxObjects :
           (/\ processing
            /\ waiting_queue # <<>>
            /\ Head(waiting_queue).download_coro = h
            /\ Cardinality(active_downloads) < max_concurrent)
               ~> (\E k \in 1..Len(ret.started) : ret.started[k].download_coro = h)
    /\ [][ProcessQueue =>
             \/ waiting_queue' = <<>>
             \/ Cardinality(active_downloads') >= max_concurrent]_vars

\* waiting_queue without the items of user u, the others in their order
WithoutItemsOf(u) == SelectSeq(waiting_queue, LAMBDA item : item.user_id # u)

\* C19: cancel_user_download(u): if u has an active download its task is
\* cancelled and u leaves active_downloads and active_tasks; otherwise, if u
\* has a waiting item, the item leaves waiting_queue and
\* user_queue_positions; both cases return True.  If u has neither, the
\* call returns False and changes nothing.  In every case the entries of
\* the other users are unchanged and the remaining items keep their order.
C19_CancelFrame ==
    [][ret'.msg \in {"active_cancelled", "queue_removed", "not_found"} =>
          \A u \in Users :
              CancelUserDownload(u) =>
                  /\ IF u \in active_downloads
                     THEN /\ ret'.ok
                          /\ \A t \in tasks :
                                 t.coro = active_tasks[u] =>
                                     [t EXCEPT !.timer = Cancelled] \in tasks'
                          /\ u \notin active_downloads'
                          /\ active_tasks'[u] = 0
                     ELSE IF ItemsOf(u) # {}
                     THEN /\ ret'.ok
                          /\ \A i \in 1..Len(waiting_queue') : waiting_queue'[i].user_id # u
                          /\ user_queue_positions'[u] = NoItem
                     ELSE /\ ~ret'.ok
                          /\ QueueUnchanged
                  /\ waiting_queue' = WithoutItemsOf(u) \/ waiting_queue' = waiting_queue
                  /\ \A v \in Users \ {u} :
                         /\ v \in active_downloads' <=> v \in active_downloads
                         /\ active_tasks'[v] = active_tasks[v]
                         /\ user_queue_positions'[v] = user_queue_positions[v]]_vars

\* C20: cleanup_orphaned_files never deletes a file that the download of a
\* user put under downloads/ while that user is in active_downloads,
\* however old the file is.
C20_CleanupSparesActiveUsersFiles ==
    [][CleanupOrphanedFiles =>
          \A f \in files : f.user_id \in active_downloads => f \in files']_vars

\* C21: whenever a download task started by the queue manager is still
\* executing its download coroutine (here: it is not finished and nobody
\* has cancelled it), its user is in active_downloads and active_tasks maps
\* that user to that task.
C21_RunningDownloadIsActive ==
    \A t \in tasks :
        t.timer # Cancelled =>
            /\ t.user_id \in active_downloads
            /\ active_tasks[t.user_id] = t.coro

\* the download whose coroutine is c holds a slot: some user is in
\* active_downloads with c's task in active_tasks
HoldsSlot(c) == \E u \in active_downloads : active_tasks[u] = c

\* C22: every download started by the queue manager eventually leaves
\* active_downloads and active_tasks, however it ends; and a finished
\* download keeps no slot: every user in active_downloads has a task that
\* has not finished, and so has every task in active_tasks.
C22_DownloadsLeave ==
    /\ \A c \in 1..MaxObjects : HoldsSlot(c) ~> ~HoldsSlot(c)
    /\ [](\A u \in Users :
             /\ u \in active_downloads => \E t \in tasks : t.user_id = u
             /\ active_tasks[u] # 0 => \E t \in tasks : t.coro = active_tasks[u])

\* a download has ended (the call before was the finally block of its task)
\* while another was cancelled and has not ended yet: neither holds a slot
C22_Witness ==
    /\ ret.msg = "None"
    /\ active_downloads = {}
    /\ \A u \in Users : active_tasks[u] = 0
    /\ waiting_queue = <<>>
    /\ processing
    /\ \E t \in tasks : t.timer = Cancelled

\* the download_media_fast call of caller c is inside its borrow block
InBorrowBlock(c) == downloads[c].pc \in {"fast_download", "download_media"}

\* C23: an allocation obtained through borrow is recorded for as long as the
\* block runs and is released, once and whole, by the step that leaves the
\* block, whether the block returns, raises or is cancelled; a call cancelled
\* or timed out inside allocate holds nothing; whenever no call is inside a
\* borrow block, _connections_in_use is 0 and _active_transfers is empty.
C23_BorrowReleasesOnce ==
    /\ [](\A c \in Callers :
             IF InBorrowBlock(c)
             THEN /\ callers[c].pc = "holding"
                  /\ active_transfers[callers[c].transfer_id] = callers[c].connections
                  /\ callers[c].connections > 0
             ELSE callers[c].pc # "holding")
    /\ []((\A c \in Callers : ~InBorrowBlock(c)) =>
             /\ connections_in_use = 0
             /\ \A transfer_id \in TransferIds : active_transfers[transfer_id] = 0)
    /\ [][\A c \in Callers :
             (InBorrowBlock(c) /\ ~InBorrowBlock(c)') =>
                 /\ callers[c].pc = "holding"
                 /\ active_transfers'[callers[c].transfer_id] = 0
                 /\ connections_in_use' = connections_in_use - callers[c].connections
                 /\ \A transfer_id \in TransferIds \ {callers[c].transfer_id} :
                        active_transfers'[transfer_id] = active_transfers[transfer_id]]_vars

\* a borrow block was left by an exception its caller sees (no fallback ran),
\* another call was cancelled or timed out inside allocate, and nothing is
\* allocated any more
C23_Witness ==
    /\ \E c \in Callers :
           /\ downloads[c].pc = "raised"
           /\ downloads[c].fast
           /\ ~downloads[c].fell_back
    /\ \A c \in Callers : ~InBorrowBlock(c)
    /\ transfer_counter >= 2
    /\ connections_in_use = 0

\* sum(_active_transfers.values()) over the ids up to n
RECURSIVE SumAllocations(_)
SumAllocations(n) == IF n = 0 THEN 0 ELSE active_transfers[n] + SumAllocations(n - 1)

\* C24: in every reachable state of the allocator, whatever allocate calls
\* (with a generated or a caller-supplied transfer_id) and release calls
\* (of a held, an unknown or an already released id) were made,
\* _connections_in_use is the sum of the allocations in _active_transfers.
C24_InUseIsSumOfAllocations == connections_in_use = SumAllocations(MaxTransferId)

\* C25: a get_or_create_session call that returns (None, 'invalid_session')
\* or (None, 'creation_failed') leaves active_sessions as it was before the
\* call and has disconnected no client of another user.
C25_FailedCreationKeepsSessions ==
    [][ret'.msg \in {"invalid_session", "creation_failed"} =>
           /\ active_sessions' = active_sessions
           /\ ret'.disconnected = {}]_vars

\* C26: once remove_session(user_id) has returned, whether or not the
\* client's disconnect() raised, user_id is in neither active_sessions nor
\* last_activity, so that no later get_or_create_session reuses the session.
C26_RemovedSessionIsGone ==
    [][\A user_id \in Users :
           (ret'.msg = "None" /\ ret'.disconnected = {user_id}) =>
               /\ user_id \notin SeqRange(active_sessions')
               /\ last_activity'[user_id] = NoTime]_vars

\* C27: add_to_queue starts no newly arrived request at once while a
\* PREMIUM item is waiting in waiting_queue: a waiting premium user is
\* served before a request that arrives later.
C27_NoStartPastWaitingPremium ==
    [][(ret'.msg = "started" /\ tasks' # tasks) =>
           \A i \in 1..Len(waiting_queue) : waiting_queue[i].priority # PREMIUM]_vars

\* the last call ran RichAds' send_ad_to_user for user u
RichAdsCalledFor(u) ==
    /\ ret.msg \in {"disabled", "cooldown", "no_ads", "sent", "no_link", "error", "richads",
                     "adsgram", "no_ads_available"}
    /\ ret.chat_id = u
    /\ ret.richads_called

\* C28: when RichAds is enabled and the user had no ad within the last 300
\* seconds, send_ad_to_user goes on to request an ad from the RichAds API:
\* the cooldown check rejects no call made outside the cooldown, and
\* AdManager tries AdsGram only after RichAds answered with no ad or failed.
C28_RichAdsRequestedOutsideCooldown ==
    [][\A u \in Users :
           (/\ RichAdsCalledFor(u)'
            /\ RichAdsEnabled
            /\ time - last_ad_time[u] >= ad_cooldown) => ret'.requested]_vars

====
